---- MODULE Spec2Model ----
(***************************************************************************)
(* ruuvitag-listener: the broadcast-event loop of ruuvi.rs and the         *)
(* per-measurement dispatch of main.rs.                                    *)
(*                                                                         *)
(* Strings are sequences of one-character strings, so that to_string,      *)
(* retain and the alias lookup are computed, not assumed.  Option<T> is a  *)
(* record with a `some` flag.  A BTreeMap is a function on its key set.    *)
(***************************************************************************)
EXTENDS Integers, Sequences, FiniteSets, TLC

VARIABLES
    options,        \* main.rs Options, parsed once in main, read-only afterwards
    pc,             \* where on_measurement / listen / main stands
    stream,         \* how many events the stream holds ready for events.next()
    pulled,         \* events events.next() has returned so far
    cur,            \* locals of on_event_with_address across its await points
    listen_result,  \* what listen(options) returned to main
    tasks,          \* the units tokio::spawn was given, in spawn order
    stdout,         \* lines written to standard output
    stderr,         \* lines written to standard error
    sink,           \* lines the sink has written, in completion order
    exit_status,    \* the status std::process::exit was called with
    resolved,       \* history: how the handling of the last pulled event ended
    consumed        \* history: per pulled discovery/update event, in the order
                    \* pulled, how often the callback was called for it

vars == <<options, pc, stream, pulled, cur, listen_result, tasks,
          stdout, stderr, sink, exit_status, resolved, consumed>>

----------------------------------------------------------------------------
(* Bounds of the model *)

\* events the stream offers in one run
MaxEvents == 2

\* the longest manufacturer-data buffer from_manufacturer_data is tried on
MaxDataLen == 4

----------------------------------------------------------------------------
(* Option<T> *)

None == [some |-> FALSE]

Some(x) == [some |-> TRUE, val |-> x]

\* Option::unwrap_or
unwrap_or(o, d) == IF o.some THEN o.val ELSE d

----------------------------------------------------------------------------
(* Result<T, E> *)

Ok(x) == [ok |-> TRUE, val |-> x]

Err(e) == [ok |-> FALSE, err |-> e]

----------------------------------------------------------------------------
(* The decoder crate: SensorValues::from_manufacturer_specific_data *)

\* the readings a format 5 payload decodes to
Format5Values ==
    [temperature |-> Some(2150), humidity |-> Some(450000),
     pressure |-> Some(100012), battery_potential |-> Some(2977),
     tx_power |-> Some(4), movement_counter |-> Some(66),
     measurement_sequence_number |-> Some(205), pm25 |-> None, co2 |-> None,
     data_format |-> Some(5), air_density |-> Some(1225),
     saturation_vapor_pressure |-> Some(2560),
     acceleration |-> Some(<<4, -4, 1036>>)]

\* the readings a format 3 payload decodes to
Format3Values ==
    [temperature |-> Some(1690), humidity |-> None,
     pressure |-> Some(100012), battery_potential |-> Some(2899),
     tx_power |-> None, movement_counter |-> None,
     measurement_sequence_number |-> None, pm25 |-> None, co2 |-> None,
     data_format |-> Some(3), air_density |-> None,
     saturation_vapor_pressure |-> None,
     acceleration |-> None]

\* readings that do not carry the format marker
WithoutMarker(values) == [values EXCEPT !.data_format = None]

\* The decoder chooses the interpretation by the first byte and may find the
\* rest of the payload invalid for it.  Whether the readings carry the format
\* marker is the decoder's business: main.rs reads it as an Option (it
\* unwraps it in the filter and tests it in field_set), so both are results.
DecodeOutcomes(data) ==
    IF data[1] = 5
    THEN {Ok(Format5Values), Ok(WithoutMarker(Format5Values)),
          Err("InvalidValueLength")}
    ELSE IF data[1] = 3
    THEN {Ok(Format3Values), Err("InvalidValueLength")}
    ELSE {Err("UnsupportedFormatVersion")}

----------------------------------------------------------------------------
(* Strings *)

HexDigits == <<"0", "1", "2", "3", "4", "5", "6", "7",
               "8", "9", "A", "B", "C", "D", "E", "F">>

\* one octet as two upper-case hex digits
HexOctet(b) == <<HexDigits[(b \div 16) + 1], HexDigits[(b % 16) + 1]>>

RECURSIVE JoinOctets(_)
JoinOctets(bytes) ==
    IF Len(bytes) = 0 THEN <<>>
    ELSE IF Len(bytes) = 1 THEN HexOctet(bytes[1])
    ELSE HexOctet(bytes[1]) \o <<":">> \o JoinOctets(Tail(bytes))

\* BDAddr's Display as used by `measurement.address.to_string()`:
\* the octets in upper-case hex, separated by colons
BDAddrToString(addr) == JoinOctets(addr)

\* String::retain(|c| c != ':')
RetainNonColon(s) == SelectSeq(s, LAMBDA c : c # ":")

\* str::find('='): the index (from 0) of the first '=', or None
RECURSIVE FindEq(_, _)
FindEq(s, i) ==
    IF i > Len(s) THEN None
    ELSE IF s[i] = "=" THEN Some(i - 1)
    ELSE FindEq(s, i + 1)

----------------------------------------------------------------------------
(* BTreeMap *)

EmptyMap == <<>>

\* BTreeMap::insert: a later insert of the same key replaces the value
MapInsert(m, k, v) == [x \in (DOMAIN m) \cup {k} |-> IF x = k THEN v ELSE m[x]]

\* BTreeMap::get
MapGet(m, k) == IF k \in DOMAIN m THEN Some(m[k]) ELSE None

----------------------------------------------------------------------------
(* Aliases: main.rs parse_alias, alias_map *)

\* parse_alias: split the argument at its first '='; Err without one
parse_alias(src) ==
    LET index == FindEq(src, 1)
    IN  IF index.some
        THEN [ok |-> TRUE,
              alias |-> [address |-> SubSeq(src, 1, index.val),
                         name |-> SubSeq(src, index.val + 2, Len(src))]]
        ELSE [ok |-> FALSE, err |-> "invalid alias"]

\* the key alias_map files an alias under: the address text as it was given
AliasKey(alias) == alias.address

RECURSIVE AliasFold(_, _)
AliasFold(map, aliases) ==
    IF Len(aliases) = 0 THEN map
    ELSE AliasFold(MapInsert(map, AliasKey(aliases[1]), aliases[1].name),
                   Tail(aliases))

\* alias_map: one entry per alias, in order
alias_map(aliases) == AliasFold(EmptyMap, aliases)

----------------------------------------------------------------------------
(* Tags: main.rs tag_set *)

\* mutant of NormalizedAddress: the colons are never removed
NormalizedAddressKeepingColons(address, opts) == BDAddrToString(address)

\* the address text tag_set uses for the `mac` tag and for the alias lookup
NormalizedAddress(address, opts) ==
    IF ~opts.keep_mac_colons
    THEN RetainNonColon(BDAddrToString(address))
    ELSE BDAddrToString(address)

\* the `name` tag: the alias filed under the address text, else that text
NameTag(aliases, address) == unwrap_or(MapGet(aliases, address), address)

tag_set(aliases, measurement, opts) ==
    LET address == NormalizedAddress(measurement.address, opts)
        tags1   == MapInsert(EmptyMap, "mac", address)
    IN  MapInsert(tags1, "name", NameTag(aliases, address))

----------------------------------------------------------------------------
(* Fields: main.rs to_float!, to_integer!, add_value_*!, field_set *)

\* to_float!: f64::from(value) / scale, kept as the exact quotient
\* (scale = scale_num / scale_den, so 0.01 is 1 / 100)
to_float(value, scale_num, scale_den) ==
    [kind |-> "FloatValue", num |-> value * scale_den, den |-> scale_num]

\* to_integer!
to_integer(value) == [kind |-> "IntegerValue", val |-> value]

\* mutant of add_value_float: an absent quantity is inserted as zero
add_value_float_or_zero(fields, value, field, scale_num, scale_den) ==
    MapInsert(fields, field,
              to_float(IF value.some THEN value.val ELSE 0, scale_num, scale_den))

\* add_value_float!: insert only when the source quantity is present
add_value_float(fields, value, field, scale_num, scale_den) ==
    IF value.some
    THEN MapInsert(fields, field, to_float(value.val, scale_num, scale_den))
    ELSE fields

\* add_value_integer!
add_value_integer(fields, value, field) ==
    IF value.some THEN MapInsert(fields, field, to_integer(value.val)) ELSE fields

\* the stand-in main.rs passes for an absent humidity / temperature
Sentinel == 999999999

\* SensorValues::dew_point_as_celsius(humidity): computed by the decoder crate
\* from its temperature and the humidity argument; kept symbolic
dew_point_as_celsius(sv, humidity_num) ==
    IF sv.temperature.some
    THEN Some(1000000 + ((sv.temperature.val + humidity_num) % 1000))
    ELSE None

\* SensorValues::absolute_humidity_as_grams_per_cubic_meter(temperature)
absolute_humidity_as_grams_per_cubic_meter(sv, temperature_num) ==
    IF sv.humidity.some
    THEN Some(2000000 + ((sv.humidity.val + temperature_num) % 1000))
    ELSE None

\* mutant of TxPowerFields: the advertised value is added without looking
\* whether the decoded one is there
TxPowerFieldsUnguarded(fields, measurement) ==
    add_value_integer(
        add_value_integer(fields, measurement.sensor_values.tx_power, "txPower"),
        measurement.tx_power, "txPower")

\* the values field_set inserts under txPower, in the order of the inserts
TxPowerInserts(measurement) ==
    (IF measurement.sensor_values.tx_power.some
     THEN <<measurement.sensor_values.tx_power.val>> ELSE <<>>)
    \o (IF ~measurement.sensor_values.tx_power.some /\ measurement.tx_power.some
        THEN <<measurement.tx_power.val>> ELSE <<>>)

\* the txPower entries of field_set: the decoded value, else the advertised one
TxPowerFields(fields, measurement) ==
    LET f1 == add_value_integer(fields, measurement.sensor_values.tx_power, "txPower")
    IN  IF ~measurement.sensor_values.tx_power.some
        THEN add_value_integer(f1, measurement.tx_power, "txPower")
        ELSE f1

\* the line field_set prints when neither transmit power is known
TxPowerDiagnostic(measurement) ==
    IF ~measurement.sensor_values.tx_power.some /\ ~measurement.tx_power.some
    THEN <<[kind |-> "no_tx_power", mac |-> BDAddrToString(measurement.address)]>>
    ELSE <<>>

AccelerationFields(fields, sv) ==
    IF sv.acceleration.some
    THEN LET a  == sv.acceleration.val
             f1 == MapInsert(fields, "accelerationX", to_float(a[1], 1000, 1))
             f2 == MapInsert(f1, "accelerationY", to_float(a[2], 1000, 1))
         IN  MapInsert(f2, "accelerationZ", to_float(a[3], 1000, 1))
    ELSE fields

field_set(measurement) ==
    LET sv  == measurement.sensor_values
        f1  == add_value_float(EmptyMap, sv.temperature, "temperature", 1000, 1)
        f2  == add_value_float(f1,
                   dew_point_as_celsius(sv, unwrap_or(sv.humidity, Sentinel)),
                   "dewPoint", 1, 1)
        f3  == add_value_float(f2, sv.humidity, "humidity", 10000, 1)
        f4  == add_value_float(f3,
                   absolute_humidity_as_grams_per_cubic_meter(
                       sv, unwrap_or(sv.temperature, Sentinel)),
                   "absoluteHumidity", 1, 1)
        f5  == add_value_float(f4, sv.pressure, "pressure", 1000, 1)
        f6  == add_value_float(f5, sv.battery_potential, "batteryVoltage", 1000, 1)
        f7  == TxPowerFields(f6, measurement)
        f8  == add_value_integer(f7, sv.movement_counter, "movementCounter")
        f9  == add_value_integer(f8, sv.measurement_sequence_number,
                                 "measurementSequenceNumber")
        f10 == add_value_float(f9, sv.pm25, "pm25", 1, 1)
        f11 == add_value_float(f10, sv.co2, "co2", 1, 1)
        f12 == add_value_integer(f11, sv.data_format, "dataFormat")
        f13 == add_value_integer(f12, measurement.rssi, "rssi")
        f14 == add_value_float(f13, sv.air_density, "airDensity", 1, 1)
        f15 == add_value_float(f14, sv.saturation_vapor_pressure,
                               "equilibriumVaporPressure", 1, 100)
    IN  AccelerationFields(f15, sv)

\* to_data_point (the timestamp, SystemTime::now(), is not kept)
to_data_point(aliases, name, measurement, opts) ==
    [measurement |-> name,
     tag_set     |-> tag_set(aliases, measurement, opts),
     field_set   |-> field_set(measurement)]

----------------------------------------------------------------------------
(* The adapter: devices, events, property snapshots *)

\* the device whose broadcasts the adapter reports: AA:BB:CC:DD:EE:FF
Devices == {<<170, 187, 204, 221, 238, 255>>}

\* CentralEvent's variants
AddressedKinds == {"DeviceDiscovered", "DeviceUpdated"}

OtherKinds == {"DeviceConnected", "DeviceDisconnected",
               "ManufacturerDataAdvertisement", "ServiceDataAdvertisement",
               "ServicesAdvertisement", "StateUpdate"}

Events == [kind : AddressedKinds \cup OtherKinds, id : Devices]

\* const MANUFACTURER_DATA_ID: u16 = 0x0499
MANUFACTURER_DATA_ID == 1177

\* PeripheralProperties as a property query can return them: the signal
\* strength, the advertised transmit power and the manufacturer data
\* (the last one under another vendor's identifier, 0x004C)
PropertySnapshots ==
    { [rssi |-> Some(-70), tx_power_level |-> None,
       manufacturer_data |-> MapInsert(EmptyMap, MANUFACTURER_DATA_ID, <<5, 8, 102>>)],
      [rssi |-> None, tx_power_level |-> Some(4),
       manufacturer_data |-> MapInsert(EmptyMap, MANUFACTURER_DATA_ID, <<3, 90, 21>>)],
      [rssi |-> Some(-70), tx_power_level |-> None,
       manufacturer_data |-> MapInsert(EmptyMap, MANUFACTURER_DATA_ID, <<5, 8>>)],
      [rssi |-> None, tx_power_level |-> Some(4),
       manufacturer_data |-> MapInsert(EmptyMap, 76, <<2, 21, 6>>)] }

\* what peripheral.properties().await can answer
PropertyResults ==
    {Err("properties"), Ok(None)} \cup {Ok(Some(p)) : p \in PropertySnapshots}

----------------------------------------------------------------------------
(* ruuvi.rs: from_manufacturer_data, to_sensor_value *)

\* the shortest buffer from_manufacturer_data rejects is this long or shorter
MinDataLen == 2

\* mutant of LongEnough: a buffer of two bytes goes to the decoder as well
LongEnoughFromTwo(data) == Len(data) >= MinDataLen

\* `data.len() > 2`: the buffer is handed to the decoder
LongEnough(data) == Len(data) > MinDataLen

\* the decoder invocations from_manufacturer_data makes for a buffer
DecoderCalls(data) == IF LongEnough(data) THEN <<data>> ELSE <<>>

\* from_manufacturer_data: the results it can return for a buffer
from_manufacturer_data(data) ==
    IF LongEnough(data)
    THEN DecodeOutcomes(data)
    ELSE {Err("EmptyValue")}

\* mutant of to_sensor_value: a missing vendor payload is an EmptyValue too
to_sensor_value_one_error(prop) ==
    IF prop.ok /\ prop.val.some
          /\ MANUFACTURER_DATA_ID \in DOMAIN prop.val.val.manufacturer_data
    THEN from_manufacturer_data(prop.val.val.manufacturer_data[MANUFACTURER_DATA_ID])
    ELSE {Err("EmptyValue")}

\* to_sensor_value, given the answer of its own property query
to_sensor_value(prop) ==
    IF prop.ok
    THEN IF prop.val.some
         THEN IF MANUFACTURER_DATA_ID \in DOMAIN prop.val.val.manufacturer_data
              THEN from_manufacturer_data(
                       prop.val.val.manufacturer_data[MANUFACTURER_DATA_ID])
              ELSE {Err("UnknownManufacturerId")}
         ELSE {Err("EmptyValue")}
    ELSE {Err("EmptyValue")}

----------------------------------------------------------------------------
(* Configuration: main.rs Options *)

Sauna == <<"S", "a", "u", "n", "a">>

\* --alias AA:BB:CC:DD:EE:FF=Sauna, the form the option's help text shows
AliasArgs ==
    { BDAddrToString(<<170, 187, 204, 221, 238, 255>>) \o <<"=">> \o Sauna }

\* the alias list clap builds from the arguments, each parsed by parse_alias
\* (other lists, and no alias at all, are covered by SpecTags below)
AliasLists == {<<parse_alias(a).alias>> : a \in AliasArgs}

OptionsSet ==
    [influxdb_measurement : {"ruuvi_measurements"},
     alias                : AliasLists,
     verbose              : BOOLEAN,
     keep_mac_colons      : BOOLEAN,
     data_format_versions : {<<>>, <<3>>}]

----------------------------------------------------------------------------
(* State *)

\* on_event_with_address holds nothing between events
NoCur == [address |-> <<>>, rssi |-> None, tx_power |-> None]

NoResult == [ok |-> FALSE, err |-> "pending"]

\* std::process::exit has not been called
Running == ~exit_status.some

Init ==
    /\ options \in OptionsSet
    /\ pc = "start"
    /\ stream = 0
    /\ pulled = 0
    /\ cur = NoCur
    /\ listen_result = NoResult
    /\ tasks = <<>>
    /\ stdout = <<>>
    /\ stderr = <<>>
    /\ sink = <<>>
    /\ exit_status = None
    /\ resolved = "none"
    /\ consumed = <<>>

----------------------------------------------------------------------------
(* main.rs: the panic hook and main's exit statuses *)

\* the status the panic hook exits with
PanicStatus == 2

\* main: the status for what listen returned
ExitStatusOf(result) == IF result.ok THEN 0 ELSE 1

\* a panic anywhere: the hook reports it and exits the process
Panic(what) ==
    /\ stderr' = Append(stderr, [kind |-> "panic", text |-> what])
    /\ exit_status' = Some(PanicStatus)

----------------------------------------------------------------------------
(* main.rs listen: the callback handed to on_measurement *)

\* the unit tokio::spawn is given for a measurement
\* (`event` is history: the discovery/update event it was spawned for)
NewTask(measurement) ==
    [pc |-> "spawned", measurement |-> measurement, datapoint |-> None,
     event |-> Len(consumed)]

\* history: the callback is called for the event being handled
CallbackCalled == [consumed EXCEPT ![Len(consumed)] = @ + 1]

\* mutant of callback_err: the error is printed whether verbose or not
callback_err_always(verbose, log, error) ==
    Append(log, [kind |-> "error", text |-> error])

\* the Err arm: the error is printed only when verbose
callback_err(verbose, log, error) ==
    IF verbose THEN Append(log, [kind |-> "error", text |-> error]) ELSE log

\* mutant of Callback: the allowlist is consulted in the callback, and a unit
\* is spawned only for a measurement it admits
CallbackFilteringFirst(result) ==
    IF result.ok
    THEN /\ tasks' = IF \/ Len(options.data_format_versions) = 0
                        \/ \E k \in 1..Len(options.data_format_versions) :
                              Some(options.data_format_versions[k])
                                  = result.val.sensor_values.data_format
                     THEN Append(tasks, NewTask(result.val))
                     ELSE tasks
         /\ UNCHANGED stderr
         /\ consumed' = CallbackCalled
    ELSE /\ stderr' = callback_err(options.verbose, stderr, result.err)
         /\ UNCHANGED tasks
         /\ consumed' = CallbackCalled

\* f(result): spawn a unit for a measurement, report an error when verbose
Callback(result) ==
    /\ IF result.ok
       THEN /\ tasks' = Append(tasks, NewTask(result.val))
            /\ UNCHANGED stderr
       ELSE /\ stderr' = callback_err(options.verbose, stderr, result.err)
            /\ UNCHANGED tasks
    /\ consumed' = CallbackCalled

----------------------------------------------------------------------------
(* ruuvi.rs on_measurement: start-up *)

\* Manager::new, adapters, the first adapter, events, start_scan: any of the
\* `?` may return its error, and `expect` panics when there is no adapter
AcquireAdapter ==
    /\ Running /\ pc = "start"
    /\ \E outcome \in {"ok", "PermissionDenied", "Other", "no adapter"} :
         CASE outcome = "ok" ->
                /\ pc' = "next"
                /\ UNCHANGED <<listen_result, stderr, exit_status>>
           [] outcome = "no adapter" ->
                /\ Panic("Bluetooth adapter not available")
                /\ UNCHANGED <<pc, listen_result>>
           [] OTHER ->
                /\ pc' = "returned"
                /\ listen_result' = Err(outcome)
                /\ UNCHANGED <<stderr, exit_status>>
    /\ UNCHANGED <<options, stream, pulled, cur, tasks, stdout, sink>>
    /\ UNCHANGED <<resolved, consumed>>

----------------------------------------------------------------------------
(* The adapter's event stream *)

\* the adapter makes another event ready
Offer ==
    /\ Running /\ pc \notin {"start", "returned"}
    /\ pulled + stream < MaxEvents
    /\ stream' = stream + 1
    /\ UNCHANGED <<options, pc, pulled, cur, listen_result, tasks, stdout,
                   stderr, sink, exit_status>>
    /\ UNCHANGED <<resolved, consumed>>

----------------------------------------------------------------------------
(* ruuvi.rs on_measurement: the loop, on_event, on_event_with_address *)

\* mutant of AfterLoop: the end of the stream is a normal return
AfterLoopOk == Ok("unit")

\* what the loop returns once the stream has ended
AfterLoop == Err("NotSupported: No events received")

\* mutant of StartsResolution: a connected device is looked at as well
StartsResolutionOnConnect(event) ==
    event.kind \in {"DeviceDiscovered", "DeviceUpdated", "DeviceConnected"}

\* on_event: only a discovered or updated device is looked at
StartsResolution(event) == event.kind \in {"DeviceDiscovered", "DeviceUpdated"}

\* events.next().await returns an event; on_event matches on its kind.
\* The other kinds give None: the callback is not called.
NextEventWith(event) ==
    /\ Running /\ pc = "next" /\ stream > 0
    /\ stream' = stream - 1
    /\ pulled' = pulled + 1
    /\ IF StartsResolution(event)
       THEN /\ pc' = "peripheral"
            /\ cur' = [NoCur EXCEPT !.address = event.id]
       ELSE /\ pc' = "next"
            /\ cur' = NoCur
    /\ UNCHANGED <<options, listen_result, tasks, stdout, stderr, sink,
                   exit_status>>
    /\ resolved' = IF pc' = "next" THEN "ignored" ELSE "pending"
    /\ consumed' = IF StartsResolution(event) THEN Append(consumed, 0) ELSE consumed

NextEvent == \E event \in Events : NextEventWith(event)

\* events.next().await returns None: the loop ends
StreamClosed ==
    /\ Running /\ pc = "next" /\ stream = 0
    /\ pc' = "returned"
    /\ listen_result' = AfterLoop
    /\ UNCHANGED <<options, stream, pulled, cur, tasks, stdout, stderr, sink,
                   exit_status>>
    /\ UNCHANGED <<resolved, consumed>>

\* mutant of PeripheralLookupWith: after a failed lookup the callback is given
\* the error and the handling goes on to the property query all the same
PeripheralLookupFallingThrough(found) ==
    /\ Running /\ pc = "peripheral"
    /\ IF found
       THEN UNCHANGED <<tasks, stderr, consumed>>
       ELSE Callback(Err("EmptyValue"))
    /\ pc' = "properties"
    /\ UNCHANGED <<options, stream, pulled, cur, listen_result, stdout, sink,
                   exit_status, resolved>>

\* central.peripheral(address).await: a failed lookup is given to the
\* callback as Some(Err(EmptyValue))
PeripheralLookupWith(found) ==
    /\ Running /\ pc = "peripheral"
    /\ IF found
       THEN /\ pc' = "properties"
            /\ UNCHANGED <<cur, tasks, stderr, consumed>>
       ELSE /\ Callback(Err("EmptyValue"))
            /\ pc' = "next"
            /\ cur' = NoCur
    /\ UNCHANGED <<options, stream, pulled, listen_result, stdout, sink,
                   exit_status>>
    /\ resolved' = IF found THEN resolved ELSE "lookup_failed"

PeripheralLookup == \E found \in BOOLEAN : PeripheralLookupWith(found)

\* mutant of ok_then_some: a failed query stands for empty properties
ok_then_default(prop) ==
    IF prop.ok /\ prop.val.some
    THEN Some(prop.val.val)
    ELSE Some([rssi |-> None, tx_power_level |-> None, manufacturer_data |-> EmptyMap])

\* Result::ok followed by `??`: the properties, or None for the whole event
ok_then_some(prop) == IF prop.ok /\ prop.val.some THEN Some(prop.val.val) ELSE None

\* peripheral.properties().await.ok()??: without properties the event gives
\* None; with them the signal strength and transmit power are kept
PropertiesQueryWith(prop) ==
    /\ Running /\ pc = "properties"
    /\ LET properties == ok_then_some(prop)
       IN  IF properties.some
           THEN /\ pc' = "to_sensor_value"
                /\ cur' = [cur EXCEPT !.rssi = properties.val.rssi,
                                      !.tx_power = properties.val.tx_power_level]
           ELSE /\ pc' = "next"
                /\ cur' = NoCur
    /\ UNCHANGED <<options, stream, pulled, listen_result, tasks, stdout,
                   stderr, sink, exit_status>>
    /\ resolved' = IF pc' = "next" THEN "no_properties" ELSE resolved
    /\ UNCHANGED consumed

PropertiesQuery == \E prop \in PropertyResults : PropertiesQueryWith(prop)

\* the Measurement on_event_with_address builds from its locals
MeasurementOf(locals, sensor_values) ==
    [address       |-> locals.address,
     rssi          |-> locals.rssi,
     tx_power      |-> locals.tx_power,
     sensor_values |-> sensor_values]

\* what on_event_with_address gives for the result of to_sensor_value
ResolutionResult(locals, decoded) ==
    IF decoded.ok THEN Ok(MeasurementOf(locals, decoded.val)) ELSE Err(decoded.err)

\* history: what the second property query and the decoding came to
HowResolved(prop, decoded) ==
    IF decoded.ok THEN "measurement"
    ELSE IF ~(prop.ok /\ prop.val.some) THEN "no_properties_again"
    ELSE IF decoded.err = "UnknownManufacturerId" THEN "unrecognized"
    ELSE "decode_error"

\* peripheral.to_sensor_value().await queries the properties again and
\* decodes; the loop then calls f with the result
ToSensorValueWith(prop, decoded) ==
    /\ Running /\ pc = "to_sensor_value"
    /\ decoded \in to_sensor_value(prop)
    /\ Callback(ResolutionResult(cur, decoded))
    /\ pc' = "next"
    /\ cur' = NoCur
    /\ UNCHANGED <<options, stream, pulled, listen_result, stdout, sink,
                   exit_status>>
    /\ resolved' = HowResolved(prop, decoded)

ToSensorValue ==
    \E prop \in PropertyResults :
        \E decoded \in to_sensor_value(prop) : ToSensorValueWith(prop, decoded)

\* main: listen has returned
MainExit ==
    /\ Running /\ pc = "returned"
    /\ exit_status' = Some(ExitStatusOf(listen_result))
    /\ IF listen_result.ok
       THEN UNCHANGED <<stdout, stderr>>
       ELSE IF listen_result.err = "PermissionDenied"
            THEN /\ stdout' = Append(stdout, [kind |-> "permission_denied"])
                 /\ UNCHANGED stderr
            ELSE /\ stderr' = Append(stderr, [kind |-> "fatal", text |-> listen_result.err])
                 /\ UNCHANGED stdout
    /\ UNCHANGED <<options, pc, stream, pulled, cur, listen_result, tasks, sink>>
    /\ UNCHANGED <<resolved, consumed>>

----------------------------------------------------------------------------
(* main.rs print_result_async: one spawned unit *)

\* Vec::contains
Contains(seq, x) == \E i \in 1..Len(seq) : seq[i] = x

\* `get_dataformat().unwrap()` is evaluated first, whatever the allowlist
FilterUnwrapPanics(opts, measurement) ==
    ~measurement.sensor_values.data_format.some

\* the condition of the `if`: the version is listed, or nothing is listed
FilterAdmits(opts, measurement) ==
    \/ Contains(opts.data_format_versions, measurement.sensor_values.data_format.val)
    \/ Len(opts.data_format_versions) = 0

\* DataPoint's Display: the line both stdout and the sink are given
Line(datapoint) ==
    [kind |-> "point", series |-> datapoint.measurement,
     tags |-> datapoint.tag_set, fields |-> datapoint.field_set]

\* mutant of MayRun: the units are run one after the other, a unit only once
\* every earlier one has finished
MayRunInTurn(i) ==
    /\ tasks[i].pc = "spawned"
    /\ \A j \in 1..(i - 1) : tasks[j].pc \notin {"spawned", "sink"}

\* tokio::spawn: the runtime may poll a spawned unit at any time
MayRun(i) == tasks[i].pc = "spawned"

\* mutant of TaskRun: the result of writeln! is dropped, and the unit submits
\* the point whether standard output took it or not
TaskRunIgnoringStdout(i) ==
    /\ Running /\ MayRun(i)
    /\ LET m == tasks[i].measurement
       IN  IF FilterUnwrapPanics(options, m)
           THEN /\ Panic("unwrap on a None value")
                /\ tasks' = [tasks EXCEPT ![i].pc = "unwrap_panic"]
                /\ UNCHANGED stdout
           ELSE IF ~FilterAdmits(options, m)
           THEN /\ tasks' = [tasks EXCEPT ![i].pc = "discarded"]
                /\ UNCHANGED <<stdout, stderr, exit_status>>
           ELSE LET dp == to_data_point(alias_map(options.alias),
                                        options.influxdb_measurement, m, options)
                    diag == TxPowerDiagnostic(m)
                IN  \E printed \in IF diag = <<>> THEN {TRUE} ELSE BOOLEAN :
                    \E written \in BOOLEAN :
                      IF ~printed
                      THEN /\ Panic("failed printing to stdout")
                           /\ tasks' = [tasks EXCEPT ![i].pc = "stdout_panic"]
                           /\ UNCHANGED stdout
                      ELSE /\ stdout' = IF written
                                        THEN Append(stdout \o diag, Line(dp))
                                        ELSE stdout \o diag
                           /\ tasks' = [tasks EXCEPT ![i].pc = "sink",
                                                     ![i].datapoint = Some(dp)]
                           /\ UNCHANGED <<stderr, exit_status>>
    /\ UNCHANGED <<options, pc, stream, pulled, cur, listen_result, sink>>
    /\ UNCHANGED <<resolved, consumed>>

\* The unit runs up to its only await: the filter, to_data_point (whose
\* field_set prints a line when no transmit power is known, and println!
\* panics when standard output cannot be written), writeln! of the point (an
\* error ends the process with status 1), and the call of
\* write_line_to_influx (listen always passes Some(&client)).
TaskRun(i) ==
    /\ Running /\ MayRun(i)
    /\ LET m == tasks[i].measurement
       IN  IF FilterUnwrapPanics(options, m)
           THEN /\ Panic("unwrap on a None value")
                /\ tasks' = [tasks EXCEPT ![i].pc = "unwrap_panic"]
                /\ UNCHANGED stdout
           ELSE IF ~FilterAdmits(options, m)
           THEN /\ tasks' = [tasks EXCEPT ![i].pc = "discarded"]
                /\ UNCHANGED <<stdout, stderr, exit_status>>
           ELSE LET dp == to_data_point(alias_map(options.alias),
                                        options.influxdb_measurement, m, options)
                    diag == TxPowerDiagnostic(m)
                IN  \E printed \in IF diag = <<>> THEN {TRUE} ELSE BOOLEAN :
                    \E written \in BOOLEAN :
                      IF ~printed
                      THEN /\ Panic("failed printing to stdout")
                           /\ tasks' = [tasks EXCEPT ![i].pc = "stdout_panic"]
                           /\ UNCHANGED stdout
                      ELSE IF ~written
                      THEN /\ stdout' = stdout \o diag
                           /\ stderr' = Append(stderr, [kind |-> "error",
                                                        text |-> "stdout"])
                           /\ exit_status' = Some(1)
                           /\ tasks' = [tasks EXCEPT ![i].pc = "stdout_error"]
                      ELSE /\ stdout' = Append(stdout \o diag, Line(dp))
                           /\ tasks' = [tasks EXCEPT ![i].pc = "sink",
                                                     ![i].datapoint = Some(dp)]
                           /\ UNCHANGED <<stderr, exit_status>>
    /\ UNCHANGED <<options, pc, stream, pulled, cur, listen_result, sink>>
    /\ UNCHANGED <<resolved, consumed>>

\* write_line_to_influx completes: the sink wrote the line, or failed and
\* logged it; nothing is returned to the unit either way
SinkComplete(i) ==
    /\ Running /\ tasks[i].pc = "sink"
    /\ \E ok \in BOOLEAN :
         IF ok
         THEN /\ sink' = Append(sink, [task |-> i,
                                       line |-> Line(tasks[i].datapoint.val)])
              /\ tasks' = [tasks EXCEPT ![i].pc = "done"]
         ELSE /\ tasks' = [tasks EXCEPT ![i].pc = "failed"]
              /\ UNCHANGED sink
    /\ UNCHANGED <<options, pc, stream, pulled, cur, listen_result, stdout,
                   stderr, exit_status>>
    /\ UNCHANGED <<resolved, consumed>>

----------------------------------------------------------------------------
(* The program *)

\* some spawned unit takes its step
RunUnit == \E i \in 1..Len(tasks) : TaskRun(i)

\* some pending sink write completes
CompleteWrite == \E i \in 1..Len(tasks) : SinkComplete(i)

Next ==
    \/ AcquireAdapter
    \/ Offer
    \/ NextEvent
    \/ StreamClosed
    \/ PeripheralLookup
    \/ PropertiesQuery
    \/ ToSensorValue
    \/ MainExit
    \/ RunUnit
    \/ CompleteWrite

Spec == Init /\ [][Next]_vars

\* The runtime keeps polling the loop's future and the adapter answers every
\* query; nothing is assumed of the spawned units or of the sink.
FairSpec ==
    /\ Spec
    /\ WF_vars(NextEvent)
    /\ WF_vars(PeripheralLookup)
    /\ WF_vars(PropertiesQuery)
    /\ WF_vars(ToSensorValue)

----------------------------------------------------------------------------
(* to_data_point on its own: every address, alias list and colon setting *)

Attic == <<"A", "t", "t", "i", "c">>

\* addresses with low and high octets, two of them differing in one octet
Addresses ==
    { <<170, 187, 204, 221, 238, 255>>, <<222, 173, 190, 239, 0, 0>>,
      <<222, 173, 190, 239, 0, 1>>, <<0, 10, 9, 160, 15, 240>> }

\* --alias arguments for an address: as BDAddr prints it, and without colons
AliasArgsFor(address, name) ==
    { BDAddrToString(address) \o <<"=">> \o name,
      RetainNonColon(BDAddrToString(address)) \o <<"=">> \o name }

TagAliasArgs ==
    AliasArgsFor(<<170, 187, 204, 221, 238, 255>>, Sauna)
        \cup AliasArgsFor(<<222, 173, 190, 239, 0, 0>>, Attic)

TagAliasLists ==
    {<<>>} \cup {<<parse_alias(a).alias>> : a \in TagAliasArgs}
           \cup {<<parse_alias(a).alias, parse_alias(b).alias>> :
                     a \in TagAliasArgs, b \in TagAliasArgs}

TagOptionsSet ==
    [influxdb_measurement : {"ruuvi_measurements"},
     alias                : TagAliasLists,
     verbose              : {FALSE},
     keep_mac_colons      : BOOLEAN,
     data_format_versions : {<<>>}]

InitTags ==
    /\ options \in TagOptionsSet
    /\ pc = "to_data_point"
    /\ stream = 0
    /\ pulled = 0
    /\ cur = NoCur
    /\ listen_result = NoResult
    /\ tasks = <<>>
    /\ stdout = <<>>
    /\ stderr = <<>>
    /\ sink = <<>>
    /\ exit_status = None
    /\ resolved = "none"
    /\ consumed = <<>>

\* to_data_point is applied to a measurement of any address
Assemble ==
    /\ pc = "to_data_point"
    /\ \E address \in Addresses, prop \in PropertySnapshots :
         LET m  == MeasurementOf([address |-> address, rssi |-> prop.rssi,
                                  tx_power |-> prop.tx_power_level],
                                 Format5Values)
             dp == to_data_point(alias_map(options.alias),
                                 options.influxdb_measurement, m, options)
         IN  tasks' = <<[pc |-> "built", measurement |-> m, datapoint |-> Some(dp)]>>
    /\ UNCHANGED <<options, pc, stream, pulled, cur, listen_result, stdout,
                   stderr, sink, exit_status>>
    /\ UNCHANGED <<resolved, consumed>>

NextTags == Assemble

SpecTags == InitTags /\ [][NextTags]_vars

----------------------------------------------------------------------------
(* from_manufacturer_data on its own: every buffer up to MaxDataLen bytes *)

\* first bytes the decoder knows (3, 5) and one it does not
Bytes == {3, 5, 8}

Buffers == UNION {[1..n -> Bytes] : n \in 0..MaxDataLen}

InitDecode ==
    /\ options \in {o \in OptionsSet : ~o.verbose /\ ~o.keep_mac_colons
                                        /\ o.data_format_versions = <<>>}
    /\ pc = "from_manufacturer_data"
    /\ stream = 0
    /\ pulled = 0
    /\ cur \in [data : Buffers]
    /\ listen_result = NoResult
    /\ tasks = <<>>
    /\ stdout = <<>>
    /\ stderr = <<>>
    /\ sink = <<>>
    /\ exit_status = None
    /\ resolved = "none"
    /\ consumed = <<>>

\* from_manufacturer_data is applied to the buffer and returns
Decode ==
    /\ pc = "from_manufacturer_data"
    /\ \E result \in from_manufacturer_data(cur.data) :
         tasks' = <<[pc |-> "returned", data |-> cur.data,
                     decoder_calls |-> DecoderCalls(cur.data),
                     result |-> result]>>
    /\ pc' = "returned"
    /\ UNCHANGED <<options, stream, pulled, cur, listen_result, stdout,
                   stderr, sink, exit_status>>
    /\ UNCHANGED <<resolved, consumed>>

NextDecode == Decode

SpecDecode == InitDecode /\ [][NextDecode]_vars

----------------------------------------------------------------------------
(* field_set on its own: every combination of present and absent quantities *)

\* a quantity absent, or present with the value of the format 5 readings
Maybe(field) == {None, Format5Values[field]}

SensorValuesSet ==
    [temperature : Maybe("temperature"), humidity : Maybe("humidity"),
     pressure : Maybe("pressure"),
     battery_potential : Maybe("battery_potential"),
     tx_power : Maybe("tx_power"),
     movement_counter : Maybe("movement_counter"),
     measurement_sequence_number : Maybe("measurement_sequence_number"),
     pm25 : {None, Some(12)}, co2 : {None, Some(415)},
     data_format : Maybe("data_format"),
     air_density : Maybe("air_density"),
     saturation_vapor_pressure : Maybe("saturation_vapor_pressure"),
     acceleration : Maybe("acceleration")]

\* measurements of one device; the advertised transmit power may equal the
\* decoded one (4) or differ from it
Measurements ==
    [address : Devices, rssi : {None, Some(-70)},
     tx_power : {None, Some(4), Some(-12)},
     sensor_values : SensorValuesSet]

InitFields ==
    /\ options \in {o \in OptionsSet : ~o.verbose /\ ~o.keep_mac_colons
                                        /\ o.data_format_versions = <<>>}
    /\ pc = "field_set"
    /\ stream = 0
    /\ pulled = 0
    /\ cur \in Measurements
    /\ listen_result = NoResult
    /\ tasks = <<>>
    /\ stdout = <<>>
    /\ stderr = <<>>
    /\ sink = <<>>
    /\ exit_status = None
    /\ resolved = "none"
    /\ consumed = <<>>

\* field_set is applied to the measurement and returns its fields; what it
\* printed on the way is on standard output
AssembleFields ==
    /\ pc = "field_set"
    /\ tasks' = <<[pc |-> "built", measurement |-> cur,
                   fields |-> field_set(cur),
                   inserts |-> TxPowerInserts(cur)]>>
    /\ stdout' = stdout \o TxPowerDiagnostic(cur)
    /\ pc' = "returned"
    /\ UNCHANGED <<options, stream, pulled, cur, listen_result, stderr, sink,
                   exit_status>>
    /\ UNCHANGED <<resolved, consumed>>

NextFields == AssembleFields

SpecFields == InitFields /\ [][NextFields]_vars

----------------------------------------------------------------------------
(* What the claims speak of *)

\* the unit has run up to its await, or ended the process
Ran(i) == tasks[i].pc # "spawned"

\* standard output could not be written while the unit ran
StdoutFailed(i) == tasks[i].pc \in {"stdout_panic", "stdout_error"}

\* the unit's data point was handed to the sink
Submitted(i) == tasks[i].pc \in {"sink", "done", "failed"}

\* the allowlist is empty or lists the measurement's format version
VersionAllowed(measurement) ==
    \/ Len(options.data_format_versions) = 0
    \/ /\ measurement.sensor_values.data_format.some
       /\ \E k \in 1..Len(options.data_format_versions) :
            options.data_format_versions[k] = measurement.sensor_values.data_format.val

\* the alias names the device, however its address was written
ConfiguredFor(alias, address) ==
    SelectSeq(alias.address, LAMBDA c : c # ":")
        = SelectSeq(BDAddrToString(address), LAMBDA c : c # ":")

\* the twelve hex digits of an address
HexDigitsOf(address) ==
    HexOctet(address[1]) \o HexOctet(address[2]) \o HexOctet(address[3])
        \o HexOctet(address[4]) \o HexOctet(address[5]) \o HexOctet(address[6])

\* the event ended without the callback, without output, back at events.next()
NullOutcome ==
    /\ pc' = "next"
    /\ UNCHANGED <<tasks, stdout, stderr, sink, exit_status>>

\* the callback was given this error: it is printed only when verbose,
\* nothing is spawned or written, and the loop is back at events.next()
ReportedWhenVerbose(error) ==
    /\ pc' = "next"
    /\ stderr' = IF options.verbose
                 THEN Append(stderr, [kind |-> "error", text |-> error])
                 ELSE stderr
    /\ UNCHANGED <<tasks, stdout, sink, exit_status>>

\* the answers of a property query that carry no properties
NoProperties == {Err("properties"), Ok(None)}

\* the answers of a property query with properties but no payload under 0x0499
UnrecognizedSource ==
    {prop \in PropertyResults :
        /\ prop.ok /\ prop.val.some
        /\ 1177 \notin DOMAIN prop.val.val.manufacturer_data}

\* the answers of a property query with a payload under 0x0499
RecognizedSource ==
    {prop \in PropertyResults :
        /\ prop.ok /\ prop.val.some
        /\ 1177 \in DOMAIN prop.val.val.manufacturer_data}

FirstQueryFails == \E prop \in NoProperties : PropertiesQueryWith(prop)

SecondQueryFails ==
    \E prop \in NoProperties :
        \E decoded \in to_sensor_value(prop) : ToSensorValueWith(prop, decoded)

UnrecognizedStep ==
    \E prop \in UnrecognizedSource :
        \E decoded \in to_sensor_value(prop) : ToSensorValueWith(prop, decoded)

\* the payload is there and does not decode (too short, or the decoder fails)
DecodeFailureStep(error) ==
    \E prop \in RecognizedSource :
        /\ Err(error) \in to_sensor_value(prop)
        /\ ToSensorValueWith(prop, Err(error))

DecodeErrors == {"EmptyValue", "InvalidValueLength", "UnsupportedFormatVersion"}

Reported(error) ==
    \E k \in 1..Len(stderr) : stderr[k] = [kind |-> "error", text |-> error]

----------------------------------------------------------------------------
(* C1 *)

\* C1: a measurement whose unit has run (standard output being writable) was
\* handed to the sink if and only if the allowlist is empty or lists its
\* format version; otherwise it was discarded, the process still running.
C1_DispatchedIffVersionAllowed ==
    \A i \in 1..Len(tasks) :
        (Ran(i) /\ ~StdoutFailed(i)) =>
            /\ Submitted(i) <=> VersionAllowed(tasks[i].measurement)
            /\ ~VersionAllowed(tasks[i].measurement) => tasks[i].pc = "discarded"

----------------------------------------------------------------------------
(* C2 *)

\* C2: with an empty allowlist a measurement without format marker is
\* dispatched like any other: its unit, once run, has handed it to the sink.
C2_EmptyAllowlistAdmitsAbsentMarker ==
    \A i \in 1..Len(tasks) :
        ( /\ Len(options.data_format_versions) = 0
          /\ ~tasks[i].measurement.sensor_values.data_format.some
          /\ Ran(i) /\ ~StdoutFailed(i) )
        => (Submitted(i) /\ tasks[i].pc # "unwrap_panic")

----------------------------------------------------------------------------
(* C3 *)

\* C3: whenever an alias is configured for the device, for either setting of
\* keep_mac_colons, the `name` tag of its data point is the alias's label.
C3_ConfiguredAliasIsFound ==
    \A i \in 1..Len(tasks) :
        tasks[i].datapoint.some =>
            \A k \in 1..Len(options.alias) :
                ConfiguredFor(options.alias[k], tasks[i].measurement.address)
                => tasks[i].datapoint.val.tag_set["name"] = options.alias[k].name

----------------------------------------------------------------------------
(* C4 *)

\* C4: every data point has exactly the tags `mac` and `name`; `mac` is the
\* address as BDAddr prints it when keep_mac_colons is set and its twelve hex
\* digits without any colon otherwise; with no alias configured for the
\* device `name` equals `mac`.
C4_TagSetShape ==
    \A i \in 1..Len(tasks) :
        tasks[i].datapoint.some =>
            LET tags    == tasks[i].datapoint.val.tag_set
                address == tasks[i].measurement.address
            IN  /\ DOMAIN tags = {"mac", "name"}
                /\ options.keep_mac_colons =>
                       /\ Len(tags["mac"]) = 17
                       /\ \A k \in 1..17 :
                            tags["mac"][k] =
                                IF k % 3 = 0 THEN ":"
                                ELSE HexDigitsOf(address)[k - (k \div 3)]
                /\ ~options.keep_mac_colons => tags["mac"] = HexDigitsOf(address)
                /\ (\A k \in 1..Len(options.alias) :
                        ~ConfiguredFor(options.alias[k], address))
                   => tags["name"] = tags["mac"]

\* a device without alias, among configured aliases, colons stripped
C4_Witness ==
    /\ Len(tasks) = 1 /\ tasks[1].datapoint.some
    /\ ~options.keep_mac_colons
    /\ Len(options.alias) = 2
    /\ \A k \in 1..Len(options.alias) :
          ~ConfiguredFor(options.alias[k], tasks[1].measurement.address)
    /\ tasks[1].datapoint.val.tag_set["name"] = HexDigitsOf(tasks[1].measurement.address)

----------------------------------------------------------------------------
(* C5 *)

\* C5: the process has exited only after listen returned (the stream closed,
\* or the adapter could not be acquired) or while acquiring the adapter.
C5_OnlyFatalConditionsExit ==
    exit_status.some => pc \in {"returned", "start"}

----------------------------------------------------------------------------
(* C6 *)

\* C6: with the loop and the adapter fair, every event the stream holds ready
\* is eventually pulled, whatever the spawned units and the sink do.
C6_OfferedEventsArePulled == (stream > 0) ~> (stream = 0)

----------------------------------------------------------------------------
(* C7 *)

\* C7 as claimed: a failed peripheral lookup or a property query without
\* properties, at either query, gives the null outcome.
C7_AnyQueryFailureIsNull ==
    [][(PeripheralLookupWith(FALSE) \/ FirstQueryFails \/ SecondQueryFails)
          => NullOutcome]_vars

\* C7 amended: the first property query without properties gives the null
\* outcome; a failed peripheral lookup and a second query without properties
\* give the callback an EmptyValue error, printed only when verbose, and never
\* a dispatch.
C7_FirstQueryFailureIsNull ==
    /\ [][FirstQueryFails => NullOutcome]_vars
    /\ [][(PeripheralLookupWith(FALSE) \/ SecondQueryFails)
             => ReportedWhenVerbose("EmptyValue")]_vars

\* verbose, the first query found no properties, and nothing was said or spawned
C7_Witness ==
    /\ options.verbose
    /\ resolved = "no_properties"
    /\ pulled = 1 /\ pc = "next"
    /\ stderr = <<>> /\ tasks = <<>>

----------------------------------------------------------------------------
(* C8 *)

\* C8: listen never returns Ok and the exit status is never 0; the loop has
\* ended only with the stream drained and closed, returning "No events
\* received", and a failed start-up returns its error before any event.
C8_NeverExitsZero ==
    /\ exit_status.some => exit_status.val # 0
    /\ pc = "returned" =>
          /\ ~listen_result.ok
          /\ \/ /\ listen_result.err = "NotSupported: No events received"
                /\ stream = 0
             \/ /\ listen_result.err \in {"PermissionDenied", "Other"}
                /\ pulled = 0

\* the stream closed after an event, and main exited with status 1
C8_Witness ==
    /\ exit_status = Some(1)
    /\ pc = "returned"
    /\ listen_result = Err("NotSupported: No events received")
    /\ pulled > 0

----------------------------------------------------------------------------
(* C9 *)

\* C9 as claimed: properties without a payload under 0x0499 give no
\* measurement, no dispatch and no diagnostic, verbose or not.
C9_UnrecognizedIsSilent ==
    [][UnrecognizedStep => NullOutcome]_vars

\* C9 amended: properties without a payload under 0x0499 give no measurement
\* and no dispatch; the UnknownManufacturerId error is printed when verbose
\* diagnostics are enabled, and nothing is printed otherwise.
C9_UnrecognizedReportedWhenVerbose ==
    [][UnrecognizedStep => ReportedWhenVerbose("UnknownManufacturerId")]_vars

\* verbose, after an unrecognized source: the error is on standard error
C9_Witness ==
    /\ options.verbose
    /\ resolved = "unrecognized"
    /\ Reported("UnknownManufacturerId")
    /\ tasks = <<>>

----------------------------------------------------------------------------
(* C10 *)

\* C10: a decode failure prints its error if and only if verbose, spawns and
\* writes nothing, leaves the process running and the loop at events.next();
\* the next ready event is then pulled by the loop's next step.
C10_DecodeFailureIsLocal ==
    /\ [][\A error \in DecodeErrors :
             DecodeFailureStep(error) =>
                 /\ ReportedWhenVerbose(error)
                 /\ (stream > 0 => ENABLED NextEvent)']_vars

\* a decode failure was reported (verbose) and the next event was pulled
C10_Witness ==
    /\ options.verbose
    /\ Reported("InvalidValueLength")
    /\ pulled = 2
    /\ tasks = <<>>

----------------------------------------------------------------------------
(* C11 *)

\* C11: for a buffer of 0, 1 or 2 bytes from_manufacturer_data returns the
\* EmptyValue parse error and has not called the decoder; for a longer buffer
\* it has called the decoder exactly once, with that buffer, and returns one
\* of the decoder's results for it, a success or an error as it stands.
C11_ShortBuffersNeverReachDecoder ==
    \A i \in 1..Len(tasks) :
        LET t == tasks[i]
        IN  /\ Len(t.data) \in {0, 1, 2} =>
                   /\ t.result = Err("EmptyValue")
                   /\ t.decoder_calls = <<>>
            /\ Len(t.data) > 2 =>
                   /\ t.decoder_calls = <<t.data>>
                   /\ t.result \in DecodeOutcomes(t.data)

\* a buffer of exactly two bytes was rejected without a call of the decoder
C11_Witness ==
    /\ Len(tasks) = 1 /\ tasks[1].pc = "returned"
    /\ Len(tasks[1].data) = 2
    /\ tasks[1].result = Err("EmptyValue")
    /\ tasks[1].decoder_calls = <<>>

----------------------------------------------------------------------------
(* C12 *)

\* an event of a kind other than DeviceDiscovered / DeviceUpdated is pulled
OtherKindStep ==
    \E event \in Events : event.kind \in OtherKinds /\ NextEventWith(event)

\* a DeviceDiscovered / DeviceUpdated event is pulled
AddressedKindStep ==
    \E event \in Events : event.kind \in AddressedKinds /\ NextEventWith(event)

\* C12: pulling a connect, disconnect, state-update or advertisement-only event
\* is a no-op: the loop is back at events.next() with nothing held, no
\* peripheral lookup or property query is pending, nothing was spawned,
\* printed, written or exited; a resolution starts only from a
\* DeviceDiscovered or DeviceUpdated event, and always does from one.
C12_OtherKindsAreNoOps ==
    /\ [][OtherKindStep =>
             /\ NullOutcome
             /\ cur' = NoCur
             /\ (~ENABLED PeripheralLookup /\ ~ENABLED PropertiesQuery
                    /\ ~ENABLED ToSensorValue)'
             /\ (stream > 0 => ENABLED NextEvent)']_vars
    /\ [][(pc = "next" /\ pc' = "peripheral") => AddressedKindStep]_vars
    /\ [][AddressedKindStep => pc' = "peripheral"]_vars

\* two events of other kinds were pulled one after the other, leaving no trace
C12_Witness ==
    /\ pulled = 2 /\ resolved = "ignored" /\ pc = "next"
    /\ tasks = <<>> /\ stdout = <<>> /\ stderr = <<>> /\ sink = <<>>

----------------------------------------------------------------------------
(* C13 *)

\* the directly sourced fields and the reading each is taken from
DirectFields ==
    { <<"temperature", "temperature">>, <<"humidity", "humidity">>,
      <<"pressure", "pressure">>, <<"batteryVoltage", "battery_potential">>,
      <<"movementCounter", "movement_counter">>,
      <<"measurementSequenceNumber", "measurement_sequence_number">>,
      <<"pm25", "pm25">>, <<"co2", "co2">>, <<"dataFormat", "data_format">> }

AccelerationNames == {"accelerationX", "accelerationY", "accelerationZ"}

\* every name field_set inserts under
FieldNames ==
    {f[1] : f \in DirectFields} \cup AccelerationNames
        \cup {"rssi", "txPower", "dewPoint", "absoluteHumidity", "airDensity",
              "equilibriumVaporPressure"}

\* C13: in the result of field_set each directly sourced field (temperature,
\* humidity, pressure, batteryVoltage, movementCounter,
\* measurementSequenceNumber, pm25, co2, dataFormat, rssi) is present if and
\* only if its source quantity is; the three acceleration fields are all
\* present when the vector is and all absent otherwise; and field_set has a
\* result, a map under its field names, for every measurement.
C13_FieldPresentIffSourcePresent ==
    /\ pc = "field_set" => DOMAIN field_set(cur) \subseteq FieldNames
    /\ \A i \in 1..Len(tasks) :
          LET t  == tasks[i]
              sv == t.measurement.sensor_values
          IN  /\ \A f \in DirectFields :
                    (f[1] \in DOMAIN t.fields) <=> sv[f[2]].some
              /\ ("rssi" \in DOMAIN t.fields) <=> t.measurement.rssi.some
              /\ IF sv.acceleration.some
                 THEN AccelerationNames \subseteq DOMAIN t.fields
                 ELSE AccelerationNames \cap DOMAIN t.fields = {}

\* readings with only temperature and the acceleration vector, no rssi:
\* temperature, the derived dew point and the three axes are the fields
C13_Witness ==
    /\ Len(tasks) = 1 /\ tasks[1].pc = "built"
    /\ tasks[1].measurement.sensor_values.temperature.some
    /\ tasks[1].measurement.sensor_values.acceleration.some
    /\ ~tasks[1].measurement.sensor_values.humidity.some
    /\ ~tasks[1].measurement.rssi.some
    /\ DOMAIN tasks[1].fields
          = {"temperature", "dewPoint", "txPower"} \cup AccelerationNames

----------------------------------------------------------------------------
(* C14 *)

\* the second property query and the decoding give a measurement
MeasurementStep ==
    \E prop \in RecognizedSource :
        \E decoded \in to_sensor_value(prop) :
            decoded.ok /\ ToSensorValueWith(prop, decoded)

\* C14 as claimed: when the loop pulls an event, the format-version decision
\* of every earlier event has been taken: no unit is still before its filter.
C14_FilterDecidedBeforeNextPull ==
    [][NextEvent => \A i \in 1..Len(tasks) : tasks[i].pc # "spawned"]_vars

\* C14 amended: when the loop pulls an event, the resolution and decoding of
\* every earlier event is over and its callback has returned; a measurement's
\* unit is spawned by that callback whatever its format version, with the
\* filter still to be decided by the unit itself.
C14_ResolvedBeforeNextPull ==
    /\ [][NextEvent => (resolved # "pending" /\ cur = NoCur)]_vars
    /\ [][MeasurementStep =>
             /\ Len(tasks') = Len(tasks) + 1
             /\ tasks'[Len(tasks')].pc = "spawned"
             /\ \A i \in 1..Len(tasks) : tasks'[i] = tasks[i]]_vars
    /\ [](pc = "next" => resolved # "pending")

\* the second event has been pulled while the unit of the first, a format 5
\* measurement under the allowlist {3}, has not yet looked at the allowlist
C14_Witness ==
    /\ pulled = 2
    /\ Len(tasks) >= 1 /\ tasks[1].pc = "spawned"
    /\ options.data_format_versions = <<3>>
    /\ tasks[1].measurement.sensor_values.data_format = Some(5)

----------------------------------------------------------------------------
(* C15 *)

\* the measurement is what one property snapshot gives: its signal strength,
\* its transmit power, and readings decoded from its payload
FromOneSnapshot(measurement) ==
    \E p \in PropertySnapshots :
        /\ measurement.rssi = p.rssi
        /\ measurement.tx_power = p.tx_power_level
        /\ MANUFACTURER_DATA_ID \in DOMAIN p.manufacturer_data
        /\ Ok(measurement.sensor_values)
               \in from_manufacturer_data(p.manufacturer_data[MANUFACTURER_DATA_ID])

\* C15: every measurement handed to the callback is built from one property
\* snapshot, and no handling of an event finds properties at its first query
\* and none at the query for the payload.
C15_SingleSnapshot ==
    /\ \A i \in 1..Len(tasks) : FromOneSnapshot(tasks[i].measurement)
    /\ resolved # "no_properties_again"

----------------------------------------------------------------------------
(* C16 *)

\* the unit has been spawned and has not finished
InFlight(i) == tasks[i].pc \in {"spawned", "sink"}

\* C16: nothing orders the units or excludes one while another runs: as long
\* as the process runs, every unit that has not started can take its step and
\* every pending sink write can complete, whatever state the other units are
\* in, and a unit's step leaves the other units as they are.  (That writes do
\* reach the sink in the reverse of the capture order, with two units in
\* flight at once, is the reachable state C16_Witness.)
C16_UnitsAreIndependent ==
    /\ [](Running =>
            \A i \in 1..Len(tasks) :
                /\ tasks[i].pc = "spawned" => ENABLED TaskRun(i)
                /\ tasks[i].pc = "sink" => ENABLED SinkComplete(i))
    /\ [][\A i \in 1..Len(tasks) :
             (TaskRun(i) \/ SinkComplete(i)) =>
                 \A j \in 1..Len(tasks) : j # i => tasks'[j] = tasks[j]]_vars

\* two measurements of the same device, captured one after the other, were
\* written by the sink in the reverse order
C16_Witness ==
    /\ Len(tasks) = 2 /\ Len(sink) = 2
    /\ sink[1].task = 2 /\ sink[2].task = 1
    /\ tasks[1].measurement.address = tasks[2].measurement.address

\* two units are in flight at the same time, both with a pending sink write
C16_TwoInFlight ==
    /\ Len(tasks) = 2
    /\ tasks[1].pc = "sink" /\ tasks[2].pc = "sink"

----------------------------------------------------------------------------
(* C17 *)

\* the line that notes the missing transmit power of the device
NoTxPowerLine(measurement) ==
    [kind |-> "no_tx_power", mac |-> BDAddrToString(measurement.address)]

\* C17: txPower is the decoded transmit power when the readings have one,
\* whatever the advertisement says; otherwise the advertised transmit power
\* when there is one; otherwise the field is left out and the absence is
\* noted on standard output.  The note is printed in that last case only, and
\* txPower is inserted at most once.
C17_TxPowerPrecedence ==
    \A i \in 1..Len(tasks) :
        LET t       == tasks[i]
            decoded == t.measurement.sensor_values.tx_power
            adv     == t.measurement.tx_power
        IN  /\ decoded.some =>
                   /\ "txPower" \in DOMAIN t.fields
                   /\ t.fields["txPower"] = [kind |-> "IntegerValue", val |-> decoded.val]
            /\ (~decoded.some /\ adv.some) =>
                   /\ "txPower" \in DOMAIN t.fields
                   /\ t.fields["txPower"] = [kind |-> "IntegerValue", val |-> adv.val]
            /\ (~decoded.some /\ ~adv.some) =>
                   /\ "txPower" \notin DOMAIN t.fields
                   /\ stdout = <<NoTxPowerLine(t.measurement)>>
            /\ (decoded.some \/ adv.some) => stdout = <<>>
            /\ Len(t.inserts) <= 1

\* the readings say 4 dBm and the advertisement -12 dBm: txPower is 4
C17_Witness ==
    /\ Len(tasks) = 1 /\ tasks[1].pc = "built"
    /\ tasks[1].measurement.sensor_values.tx_power = Some(4)
    /\ tasks[1].measurement.tx_power = Some(-12)
    /\ tasks[1].fields["txPower"] = [kind |-> "IntegerValue", val |-> 4]
    /\ stdout = <<>>

----------------------------------------------------------------------------
(* C18 *)

\* the unit's measurement passed the filter
Admitted(i) ==
    tasks[i].pc \in {"sink", "done", "failed", "stdout_panic", "stdout_error"}

\* the lines the sink wrote for the unit
WrittenFor(i) == {k \in 1..Len(sink) : sink[k].task = i}

\* C18: for each consumed discovery/update event the callback is called at
\* most once, at most one unit is spawned and at most one line reaches the
\* sink; the submissions are no more than the admitted measurements, which are
\* no more than the consumed discovery/update events; and a unit whose write
\* has completed, failed or not, stays as it is: nothing is submitted again.
C18_AtMostOnce ==
    /\ [](/\ \A k \in 1..Len(consumed) : consumed[k] <= 1
          /\ \A i \in 1..Len(tasks) :
                /\ tasks[i].event \in 1..Len(consumed)
                /\ \A j \in 1..Len(tasks) :
                      tasks[j].event = tasks[i].event => j = i
                /\ Cardinality(WrittenFor(i)) <= 1
          /\ Cardinality({i \in 1..Len(tasks) : Submitted(i)})
                <= Cardinality({i \in 1..Len(tasks) : Admitted(i)})
          /\ Cardinality({i \in 1..Len(tasks) : Admitted(i)}) <= Len(consumed)
          /\ Len(sink) <= Cardinality({i \in 1..Len(tasks) : Submitted(i)}))
    /\ [][\A i \in 1..Len(tasks) :
             /\ tasks[i].pc \in {"done", "failed"} => tasks'[i] = tasks[i]
             /\ Submitted(i) =>
                    /\ tasks'[i].pc \in {"sink", "done", "failed"}
                    /\ tasks'[i].datapoint = tasks[i].datapoint]_vars

\* two events, each with its one callback and its one unit: the first write
\* failed and was left at that, the second was written
C18_Witness ==
    /\ consumed = <<1, 1>>
    /\ Len(tasks) = 2
    /\ tasks[1].pc = "failed" /\ tasks[2].pc = "done"
    /\ Len(sink) = 1 /\ sink[1].task = 2

----------------------------------------------------------------------------
(* C19 *)

\* the data point lines on standard output
PointLines == {j \in 1..Len(stdout) : stdout[j].kind = "point"}

\* C19: a unit submits its data point to the sink only with the point written
\* to standard output, and the sink is given the very line standard output
\* got; a unit whose write to standard output failed has submitted nothing,
\* never will, and the process has exited with status 1.  So every line of
\* the sink is a line of standard output.
C19_StdoutBeforeSink ==
    /\ [](/\ \A i \in 1..Len(tasks) :
                /\ Submitted(i) =>
                      /\ tasks[i].datapoint.some
                      /\ \E j \in PointLines :
                            stdout[j] = Line(tasks[i].datapoint.val)
                /\ tasks[i].pc = "stdout_error" =>
                      /\ exit_status = Some(1)
                      /\ ~tasks[i].datapoint.some
                      /\ WrittenFor(i) = {}
          /\ Cardinality(PointLines)
                = Cardinality({i \in 1..Len(tasks) : Submitted(i)})
          /\ \A k \in 1..Len(sink) :
                /\ sink[k].line = Line(tasks[sink[k].task].datapoint.val)
                /\ \E j \in PointLines : stdout[j] = sink[k].line)
    /\ [][(\E i \in 1..Len(tasks) : tasks[i].pc = "stdout_error")
             => UNCHANGED <<tasks, sink>>]_vars

\* the first point went to standard output and to the sink; the write of the
\* second to standard output failed: status 1, and the sink never saw it
C19_Witness ==
    /\ Len(tasks) = 2
    /\ tasks[1].pc = "done" /\ tasks[2].pc = "stdout_error"
    /\ exit_status = Some(1)
    /\ Len(sink) = 1 /\ sink[1].task = 1
    /\ Cardinality(PointLines) = 1

====
